---- MODULE Spec2Model ----
\* Client::request of src/client/mod.rs: the redirect-following dispatch loop,
\* the request-body classification (Body / IntoBody) and the redirect policy;
\* and the Referer header of src/header/common/referer.rs: parse_header,
\* from_str and fmt_header.
\*
\* Text (a URL string, a Location value) is a sequence of lexical tokens:
\*   "http:" "https:"   scheme with its colon (relative schemes)
\*   "about:"           scheme with its colon (non-relative scheme)
\*   "blank"            scheme data of a non-relative scheme
\*   "//"               authority marker
\*   "u@"               user-info
\*   "h1" "h2" "h3"     host
\*   ":9"               port
\*   "/" "/a" "/b"      path
\*   "?q"               query
\*   "#f"               fragment
\*   " "                white space
\*   "<FF>"             bytes that are not UTF-8 (raw header lines only)
\* Option<T> is a sequence of length 0 (None) or 1 (Some(x)).
EXTENDS Integers, Sequences, FiniteSets, TLC

VARIABLES
    redirect_policy,  \* Client.redirect_policy
    pc,               \* position of the caller / of Client::request
    options,          \* the RequestOptions handed to Client::request
    url,              \* local `url`: Option<Url>
    can_have_body,    \* local `can_have_body`
    body,             \* local `body`: Option<Body>
    res,              \* local `res`: Option<Response>
    result,           \* the HttpResult<Response> returned: Option
    hops,             \* what the connector saw: one record per request handle
    payload_read,     \* bytes pulled out of the caller's payload source so far
    hdr_pc,           \* position of the caller of the Referer header
    hdr_raw,          \* `raw` handed to Referer::parse_header
    hdr_parsed,       \* what parse_header returned: Option<Referer>
    hdr_text,         \* what fmt_header wrote: Option<text>
    hdr_again         \* parse_header of the written text: Option<Option<Referer>>

client_vars == <<redirect_policy, pc, options, url, can_have_body, body, res,
                 result, hops, payload_read>>

referer_vars == <<hdr_pc, hdr_raw, hdr_parsed, hdr_text, hdr_again>>

vars == <<redirect_policy, pc, options, url, can_have_body, body, res, result,
          hops, payload_read, hdr_pc, hdr_raw, hdr_parsed, hdr_text, hdr_again>>

----------------------------------------------------------------------------
\* Bounds

\* Request handles one dispatch may open in the model.
MaxHops == 3

\* Longest payload (in bytes for slices and readers, in chars for strings).
MaxLen == 1

\* Most raw lines one received Referer header has in the model.
MaxLines == 2

----------------------------------------------------------------------------
\* Option and Result

None == <<>>
Some(x) == <<x>>
IsSome(o) == Len(o) = 1
IsNone(o) == Len(o) = 0
Unwrap(o) == o[1]

Ok(v) == [ok |-> TRUE, val |-> v]
Err(e) == [ok |-> FALSE, err |-> e]

----------------------------------------------------------------------------
\* URLs (the url crate, as Client::request uses it)

SchemeTokens == {"http:", "https:"}
NonRelativeSchemeTokens == {"about:"}
UserTokens == {"u@"}
HostTokens == {"h1", "h2", "h3"}
PortTokens == {":9"}
PathTokens == {"/", "/a", "/b"}
QueryTokens == {"?q"}
FragmentTokens == {"#f"}

\* The text of a token without its delimiter.
SchemeName(t) ==
    IF t = "http:" THEN "http" ELSE IF t = "https:" THEN "https" ELSE "about"
UserName(t) == "u"
PortNumber(t) == 9
QueryText(t) == "q"
FragmentText(t) == "f"

\* One optional token of class `class` at the front of s: <<Option, rest>>.
Eat(s, class) ==
    IF s # <<>> /\ Head(s) \in class THEN <<Some(Head(s)), Tail(s)>>
    ELSE <<None, s>>

\* [path] [query] [fragment] then end of input, on top of the fields in `u`.
\* `keep_path`, `keep_query`: what an absent path / query falls back to.
ParseTail(u, s, keep_path, keep_query) ==
    LET p == Eat(s, PathTokens)
        q == Eat(p[2], QueryTokens)
        f == Eat(q[2], FragmentTokens)
    IN  IF f[2] # <<>> THEN Err("InvalidCharacter")
        ELSE Ok([u EXCEPT
                !.path = IF IsSome(p[1]) THEN Unwrap(p[1]) ELSE keep_path,
                !.query = IF IsSome(q[1]) THEN Some(QueryText(Unwrap(q[1])))
                          ELSE IF IsSome(p[1]) THEN None ELSE keep_query,
                !.fragment = IF IsSome(f[1]) THEN Some(FragmentText(Unwrap(f[1])))
                             ELSE None])

\* s is what follows "//": [user-info] host [port] then ParseTail.
ParseAuthority(scheme, s) ==
    LET u == Eat(s, UserTokens)
        h == Eat(u[2], HostTokens)
        p == Eat(h[2], PortTokens)
    IN  IF IsNone(h[1]) THEN Err("EmptyHost")
        ELSE ParseTail([scheme |-> scheme, kind |-> "Relative",
                        username |-> IF IsSome(u[1]) THEN Some(UserName(Unwrap(u[1])))
                                     ELSE None,
                        host |-> Unwrap(h[1]),
                        port |-> IF IsSome(p[1]) THEN Some(PortNumber(Unwrap(p[1])))
                                 ELSE None,
                        path |-> "/", query |-> None, fragment |-> None],
                       p[2], "/", None)

\* The longest prefix of s that holds no query and no fragment token.
RECURSIVE SchemeData(_)
SchemeData(s) ==
    IF s = <<>> \/ Head(s) \in QueryTokens \cup FragmentTokens THEN <<>>
    ELSE <<Head(s)>> \o SchemeData(Tail(s))

\* s is what follows the colon of a non-relative scheme: the scheme data up to
\* the query or the fragment, then [query] [fragment] and end of input.
ParseNonRelative(scheme, s) ==
    LET d == SchemeData(s)
        q == Eat(SubSeq(s, Len(d) + 1, Len(s)), QueryTokens)
        f == Eat(q[2], FragmentTokens)
    IN  IF f[2] # <<>> THEN Err("InvalidCharacter")
        ELSE Ok([scheme |-> scheme, kind |-> "NonRelative", data |-> d,
                 query |-> IF IsSome(q[1]) THEN Some(QueryText(Unwrap(q[1])))
                           ELSE None,
                 fragment |-> IF IsSome(f[1]) THEN Some(FragmentText(Unwrap(f[1])))
                              ELSE None])

\* Url::parse(s): an absolute URL, or an error.
UrlParse(s) ==
    IF s # <<>> /\ Head(s) \in NonRelativeSchemeTokens
    THEN ParseNonRelative(SchemeName(Head(s)), Tail(s))
    ELSE IF s = <<>> \/ Head(s) \notin SchemeTokens THEN Err("RelativeUrlWithoutBase")
    ELSE IF Len(s) < 2 \/ s[2] # "//" THEN Err("ExpectedTwoSlashes")
    ELSE ParseAuthority(SchemeName(Head(s)), SubSeq(s, 3, Len(s)))

\* UrlParser::new().base_url(base).parse(s): s as a reference relative to base.
UrlParseWithBase(base, s) ==
    IF s # <<>> /\ Head(s) \in SchemeTokens THEN UrlParse(s)
    ELSE IF s # <<>> /\ Head(s) = "//"
         THEN ParseAuthority(base.scheme, Tail(s))
    ELSE ParseTail(base, s, base.path, base.query)

----------------------------------------------------------------------------
\* Headers: a map from header name to value

NoHeaders == [n \in {} |-> 0]

HeadersGet(h, name) == IF name \in DOMAIN h THEN Some(h[name]) ELSE None

HeadersSet(h, name, v) ==
    [n \in DOMAIN h \cup {name} |-> IF n = name THEN v ELSE h[n]]

HeadersExtend(h, other) ==
    [n \in DOMAIN h \cup DOMAIN other |->
        IF n \in DOMAIN other THEN other[n] ELSE h[n]]

----------------------------------------------------------------------------
\* Body and IntoBody

\* str::as_bytes: UTF-8, one byte below 128 and two bytes below 2048.
EncodeUtf8(c) ==
    IF c < 128 THEN <<c>> ELSE <<192 + (c \div 64), 128 + (c % 64)>>

RECURSIVE AsBytes(_)
AsBytes(chars) ==
    IF chars = <<>> THEN <<>> ELSE EncodeUtf8(Head(chars)) \o AsBytes(Tail(chars))

IntoBodySlice(bytes) == [kind |-> "SizedBody", rdr |-> bytes, len |-> Len(bytes)]

\* Mutant: the length of a string counted in chars.
IntoBodyStr_CharCount(chars) ==
    [kind |-> "SizedBody", rdr |-> AsBytes(chars), len |-> Len(chars)]

IntoBodyStr(chars) == IntoBodySlice(AsBytes(chars))

IntoBodyReader(data) == [kind |-> "ChunkedBody", rdr |-> data]

\* B: IntoBody, by the type of the payload the caller passed.
IntoBody(p) ==
    CASE p.type = "slice" -> IntoBodySlice(p.bytes)
      [] p.type = "str" -> IntoBodyStr(p.chars)
      [] p.type = "reader" -> IntoBodyReader(p.stream)

\* Mutant: every body reports the length of its data.
BodySize_Always(b) == Some(Len(b.rdr))

BodySize(b) == IF b.kind = "SizedBody" THEN Some(b.len) ELSE None

----------------------------------------------------------------------------
\* IntoUrl

\* Mutant: a string that is no absolute URL is resolved against a default base.
IntoUrl_Lenient(t) ==
    IF t.type = "Url" THEN Ok(t.url)
    ELSE IF UrlParse(t.text).ok THEN UrlParse(t.text)
    ELSE UrlParseWithBase(UrlParse(<<"http:", "//", "h1">>).val, t.text)

IntoUrl(t) == IF t.type = "Url" THEN Ok(t.url) ELSE UrlParse(t.text)

----------------------------------------------------------------------------
\* RedirectPolicy

FollowNone == [kind |-> "FollowNone"]
FollowAll == [kind |-> "FollowAll"]
FollowIf(f) == [kind |-> "FollowIf", cond |-> f]

DefaultRedirectPolicy == FollowAll

\* The functions a caller passes in FollowIf. "follow_if" is the one of
\* tests::test_redirect_followif: it rejects the third host. "root_only"
\* accepts a URL whose path is "/".
Cond(f, u) ==
    CASE f = "follow_if" -> u.host # "h3"
      [] f = "root_only" -> u.path = "/"

\* Mutant: the FollowAll and FollowNone arms swapped.
PolicyFollows_Swapped(policy, u) ==
    CASE policy.kind = "FollowNone" -> TRUE
      [] policy.kind = "FollowIf" -> Cond(policy.cond, u)
      [] OTHER -> FALSE

\* Mutant: the catch-all arm continues instead of returning.
PolicyFollows_FallThrough(policy, u) ==
    CASE policy.kind = "FollowAll" -> TRUE
      [] policy.kind = "FollowIf" -> Cond(policy.cond, u)
      [] OTHER -> TRUE

\* Mutant: the FollowIf arm without its guard.
PolicyFollows_NoGuard(policy, u) ==
    CASE policy.kind = "FollowAll" -> TRUE
      [] policy.kind = "FollowIf" -> TRUE
      [] OTHER -> FALSE

\* The match on self.redirect_policy: TRUE to continue the loop.
PolicyFollows(policy, u) ==
    CASE policy.kind = "FollowAll" -> TRUE
      [] policy.kind = "FollowIf" -> Cond(policy.cond, u)
      [] OTHER -> FALSE

----------------------------------------------------------------------------
\* Status

StatusClass(code) ==
    CASE code \in 100..199 -> "Informational"
      [] code \in 200..299 -> "Success"
      [] code \in 300..399 -> "Redirection"
      [] code \in 400..499 -> "ClientError"
      [] code \in 500..599 -> "ServerError"
      [] OTHER -> "NoClass"

----------------------------------------------------------------------------
\* Inputs

SeqsUpTo(S, n) == UNION {[1..k -> S] : k \in 0..n}

Methods == {"Get", "Head", "Post", "Delete"}

\* U: IntoUrl is a Url or a &str.
Targets ==
    { [type |-> "Url", url |-> UrlParse(<<"http:", "//", "h1", "/a", "?q">>).val],
      [type |-> "str", text |-> <<"/a">>] }

CallerHeaders == {None, Some([ContentLength |-> 9, UserAgent |-> "ua"])}

Payloads ==
    {[type |-> "slice", bytes |-> b] : b \in SeqsUpTo({7}, MaxLen)}
    \cup {[type |-> "str", chars |-> c] : c \in SeqsUpTo({233}, MaxLen)}
    \cup {[type |-> "reader", stream |-> b] : b \in SeqsUpTo({7}, MaxLen)}

RequestOptions ==
    [method : Methods, url : Targets, headers : CallerHeaders,
     body : {None} \cup {Some(p) : p \in Payloads}]

Policies == {FollowNone, FollowAll, FollowIf("follow_if"), FollowIf("root_only")}

\* What a server may answer: a status and, possibly, a Location header.
Statuses == {200, 301, 302}

LocationValues ==
    { <<"https:", "//", "h3">>,    \* absolute
      <<"/b">>,                    \* relative to the current URL
      <<"http:", "//">> }          \* no host: does not resolve

ResponseHeaders ==
    {NoHeaders} \cup {[Location |-> l] : l \in LocationValues}

----------------------------------------------------------------------------
\* Client::request, step by step

\* Mutant: only Get is matched.
CanHaveBody_OnlyGet(method) == method # "Get"

\* let can_have_body = match &method { Get | Head => false, _ => true }
CanHaveBody(method) == method \notin {"Get", "Head"}

\* let mut body = if can_have_body { body.map(|b| b.into_body()) } else { None }
InitialBody(can, b) ==
    IF can /\ IsSome(b) THEN Some(IntoBody(Unwrap(b))) ELSE None

\* Mutant: the (true, None) arm is missing.
RequestHeaders_NoZero(can, b, caller) ==
    LET extended == IF IsSome(caller) THEN HeadersExtend(NoHeaders, Unwrap(caller))
                    ELSE NoHeaders
    IN  IF can /\ IsSome(b) /\ IsSome(BodySize(Unwrap(b)))
        THEN HeadersSet(extended, "ContentLength", Unwrap(BodySize(Unwrap(b))))
        ELSE extended

\* The headers of a fresh request handle after the caller's headers were added
\* and the match on (can_have_body, body.as_ref()) ran.
RequestHeaders(can, b, caller) ==
    LET extended == IF IsSome(caller) THEN HeadersExtend(NoHeaders, Unwrap(caller))
                    ELSE NoHeaders
    IN  IF can /\ IsSome(b)
        THEN IF IsSome(BodySize(Unwrap(b)))
             THEN HeadersSet(extended, "ContentLength", Unwrap(BodySize(Unwrap(b))))
             ELSE extended
        ELSE IF can THEN HeadersSet(extended, "ContentLength", 0)
        ELSE extended

\* Mutant: a Location that does not resolve leaves the url as it is and the
\* policy is asked all the same.
Decide_Retry(policy, cur, r) ==
    IF StatusClass(r.status) # "Redirection" THEN [follow |-> FALSE, url |-> cur]
    ELSE LET loc == HeadersGet(r.headers, "Location") IN
         IF IsNone(loc) THEN [follow |-> FALSE, url |-> cur]
         ELSE LET parsed == UrlParseWithBase(cur, Unwrap(loc)) IN
              IF ~parsed.ok THEN [follow |-> PolicyFollows(policy, cur), url |-> cur]
              ELSE [follow |-> PolicyFollows(policy, parsed.val), url |-> parsed.val]

\* Mutant: the Location is resolved against the URL of the first hop.
Decide_FromFirst(policy, cur, r) ==
    IF StatusClass(r.status) # "Redirection" THEN [follow |-> FALSE, url |-> cur]
    ELSE LET loc == HeadersGet(r.headers, "Location") IN
         IF IsNone(loc) THEN [follow |-> FALSE, url |-> cur]
         ELSE LET parsed == UrlParseWithBase(hops[1].url, Unwrap(loc)) IN
              IF ~parsed.ok THEN [follow |-> FALSE, url |-> cur]
              ELSE [follow |-> PolicyFollows(policy, parsed.val), url |-> parsed.val]

\* Mutant: the second redirection in a row is returned, not followed.
Decide_HopLimit(policy, cur, r) ==
    IF StatusClass(r.status) # "Redirection" THEN [follow |-> FALSE, url |-> cur]
    ELSE LET loc == HeadersGet(r.headers, "Location") IN
         IF IsNone(loc) THEN [follow |-> FALSE, url |-> cur]
         ELSE LET parsed == UrlParseWithBase(cur, Unwrap(loc)) IN
              IF ~parsed.ok THEN [follow |-> FALSE, url |-> cur]
              ELSE [follow |-> Len(hops) < 2 /\ PolicyFollows(policy, parsed.val),
                    url |-> parsed.val]

\* Mutant: a redirection without Location is asked for again at the same url.
Decide_NoLocationRetry(policy, cur, r) ==
    IF StatusClass(r.status) # "Redirection" THEN [follow |-> FALSE, url |-> cur]
    ELSE LET loc == HeadersGet(r.headers, "Location") IN
         IF IsNone(loc) THEN [follow |-> PolicyFollows(policy, cur), url |-> cur]
         ELSE LET parsed == UrlParseWithBase(cur, Unwrap(loc)) IN
              IF ~parsed.ok THEN [follow |-> FALSE, url |-> cur]
              ELSE [follow |-> PolicyFollows(policy, parsed.val), url |-> parsed.val]

\* What the loop does with a response: return it, or go round with a new url.
\* `url` is the value of the local afterwards.
Decide(policy, cur, r) ==
    IF StatusClass(r.status) # "Redirection" THEN [follow |-> FALSE, url |-> cur]
    ELSE LET loc == HeadersGet(r.headers, "Location") IN
         IF IsNone(loc) THEN [follow |-> FALSE, url |-> cur]
         ELSE LET parsed == UrlParseWithBase(cur, Unwrap(loc)) IN
              IF ~parsed.ok THEN [follow |-> FALSE, url |-> cur]
              ELSE [follow |-> PolicyFollows(policy, parsed.val), url |-> parsed.val]

LastHop == hops[Len(hops)]

SetLastHop(h) == [hops EXCEPT ![Len(hops)] = h]

ReturnWith(r) ==
    /\ pc' = "done"
    /\ result' = Some(r)

\* Client::with_connector
Init ==
    /\ redirect_policy = DefaultRedirectPolicy
    /\ pc = "idle"
    /\ options = None
    /\ url = None
    /\ can_have_body = FALSE
    /\ body = None
    /\ res = None
    /\ result = None
    /\ hops = <<>>
    /\ payload_read = 0
    /\ hdr_pc = "idle"
    /\ hdr_raw = <<>>
    /\ hdr_parsed = None
    /\ hdr_text = None
    /\ hdr_again = None

SetRedirectPolicy(policy) ==
    /\ pc = "idle"
    /\ redirect_policy' = policy
    /\ UNCHANGED <<pc, options, url, can_have_body, body, res, result, hops,
                   payload_read>>
    /\ UNCHANGED referer_vars

\* Entry: into_url fails, and the call returns the error.
RequestBadUrl(o) ==
    /\ pc = "idle"
    /\ ~IntoUrl(o.url).ok
    /\ options' = Some(o)
    /\ ReturnWith(Err("HttpUriError"))
    /\ UNCHANGED <<redirect_policy, url, can_have_body, body, res, hops,
                   payload_read>>
    /\ UNCHANGED referer_vars

\* Entry: the locals are set up and the loop is entered.
Request(o) ==
    /\ pc = "idle"
    /\ IntoUrl(o.url).ok
    /\ options' = Some(o)
    /\ url' = Some(IntoUrl(o.url).val)
    /\ can_have_body' = CanHaveBody(o.method)
    /\ body' = InitialBody(CanHaveBody(o.method), o.body)
    /\ pc' = "open"
    /\ UNCHANGED <<redirect_policy, res, result, hops, payload_read>>
    /\ UNCHANGED referer_vars

\* try!(Request::with_connector(..)) fails.
OpenFail ==
    /\ pc = "open"
    /\ ReturnWith(Err("with_connector"))
    /\ UNCHANGED <<redirect_policy, options, url, can_have_body, body, res,
                   hops, payload_read>>
    /\ UNCHANGED referer_vars

\* A fresh request handle for the current url, and its headers.
Open ==
    /\ pc = "open"
    /\ Len(hops) < MaxHops
    /\ hops' = Append(hops,
          [url |-> Unwrap(url),
           method |-> Unwrap(options).method,
           headers |-> RequestHeaders(can_have_body, body, Unwrap(options).headers),
           stage |-> "fresh",
           written |-> <<>>,
           copy_err |-> FALSE,
           res |-> None])
    /\ res' = None
    /\ pc' = "start"
    /\ UNCHANGED <<redirect_policy, options, url, can_have_body, body, result,
                   payload_read>>
    /\ UNCHANGED referer_vars

\* try!(req.start()) fails.
StartFail ==
    /\ pc = "start"
    /\ hops' = SetLastHop([LastHop EXCEPT !.stage = "start_failed"])
    /\ ReturnWith(Err("start"))
    /\ UNCHANGED <<redirect_policy, options, url, can_have_body, body, res,
                   payload_read>>
    /\ UNCHANGED referer_vars

Start ==
    /\ pc = "start"
    /\ hops' = SetLastHop([LastHop EXCEPT !.stage = "streaming"])
    /\ pc' = "copy"
    /\ UNCHANGED <<redirect_policy, options, url, can_have_body, body, res,
                   result, payload_read>>
    /\ UNCHANGED referer_vars

\* body.take().map(|mut rdr| copy(&mut rdr, &mut streaming)); with no body left.
CopyNone ==
    /\ pc = "copy"
    /\ IsNone(body)
    /\ pc' = "send"
    /\ UNCHANGED <<redirect_policy, options, url, can_have_body, body, res,
                   result, hops, payload_read>>
    /\ UNCHANGED referer_vars

\* Not the code: the body is borrowed, not taken, and stays for the next hop.
CopyAll_NoTake ==
    /\ pc = "copy"
    /\ IsSome(body)
    /\ hops' = SetLastHop([LastHop EXCEPT !.written = Unwrap(body).rdr])
    /\ payload_read' = payload_read + Len(Unwrap(body).rdr)
    /\ pc' = "send"
    /\ UNCHANGED <<redirect_policy, options, url, can_have_body, body, res,
                   result>>
    /\ UNCHANGED referer_vars

\* copy() moves the whole payload into the request.
CopyAll ==
    /\ pc = "copy"
    /\ IsSome(body)
    /\ hops' = SetLastHop([LastHop EXCEPT !.written = Unwrap(body).rdr])
    /\ payload_read' = payload_read + Len(Unwrap(body).rdr)
    /\ body' = None
    /\ pc' = "send"
    /\ UNCHANGED <<redirect_policy, options, url, can_have_body, res, result>>
    /\ UNCHANGED referer_vars

\* copy() fails with k bytes moved; its IoResult is dropped by the `;`.
CopyFail(k) ==
    /\ pc = "copy"
    /\ IsSome(body)
    /\ k = 0 \/ k < Len(Unwrap(body).rdr)
    /\ hops' = SetLastHop([LastHop EXCEPT
                              !.written = SubSeq(Unwrap(body).rdr, 1, k),
                              !.copy_err = TRUE])
    /\ payload_read' = payload_read + k
    /\ body' = None
    /\ pc' = "send"
    /\ UNCHANGED <<redirect_policy, options, url, can_have_body, res, result>>
    /\ UNCHANGED referer_vars

\* Not the code: a failed send is answered by going round the loop again.
SendFail_Retry ==
    /\ pc = "send"
    /\ hops' = SetLastHop([LastHop EXCEPT !.stage = "send_failed"])
    /\ pc' = "open"
    /\ UNCHANGED <<redirect_policy, options, url, can_have_body, body, res,
                   result, payload_read>>
    /\ UNCHANGED referer_vars

\* try!(streaming.send()) fails.
SendFail ==
    /\ pc = "send"
    /\ hops' = SetLastHop([LastHop EXCEPT !.stage = "send_failed"])
    /\ ReturnWith(Err("send"))
    /\ UNCHANGED <<redirect_policy, options, url, can_have_body, body, res,
                   payload_read>>
    /\ UNCHANGED referer_vars

\* streaming.send() yields the response of this hop; then from the status
\* check to the match on the redirect policy.
Send(status, headers) ==
    /\ pc = "send"
    /\ LET r == [status |-> status, headers |-> headers, hop |-> Len(hops)]
           d == Decide(redirect_policy, Unwrap(url), r)
       IN
        /\ res' = Some(r)
        /\ hops' = SetLastHop([LastHop EXCEPT !.stage = "sent", !.res = Some(r)])
        /\ url' = Some(d.url)
        /\ IF d.follow
           THEN pc' = "open" /\ UNCHANGED result
           ELSE ReturnWith(Ok(r))
    /\ UNCHANGED <<redirect_policy, options, can_have_body, body, payload_read>>
    /\ UNCHANGED referer_vars

\* Not the code: the client falls back to the default policy after a call.
Returned_ResetsPolicy ==
    /\ pc = "done"
    /\ pc' = "idle"
    /\ options' = None
    /\ url' = None
    /\ can_have_body' = FALSE
    /\ body' = None
    /\ res' = None
    /\ result' = None
    /\ hops' = <<>>
    /\ payload_read' = 0
    /\ redirect_policy' = DefaultRedirectPolicy
    /\ UNCHANGED referer_vars

\* The caller has the HttpResult; the call's locals and its handles are gone.
Returned ==
    /\ pc = "done"
    /\ pc' = "idle"
    /\ options' = None
    /\ url' = None
    /\ can_have_body' = FALSE
    /\ body' = None
    /\ res' = None
    /\ result' = None
    /\ hops' = <<>>
    /\ payload_read' = 0
    /\ UNCHANGED redirect_policy
    /\ UNCHANGED referer_vars

Next ==
    \/ \E policy \in Policies : SetRedirectPolicy(policy)
    \/ \E o \in RequestOptions : RequestBadUrl(o)
    \/ \E o \in RequestOptions : Request(o)
    \/ OpenFail
    \/ Open
    \/ StartFail
    \/ Start
    \/ CopyNone
    \/ CopyAll
    \/ \E k \in 0..MaxLen * 2 : CopyFail(k)
    \/ SendFail
    \/ \E status \in Statuses, headers \in ResponseHeaders : Send(status, headers)
    \/ Returned

Spec == Init /\ [][Next]_vars

\* The steps Client::request takes by itself once it has been called. Each is
\* straight-line code around one transport call, so when every transport call
\* returns the call does not stay at any of them for ever.
DispatchStep ==
    \/ OpenFail
    \/ Open
    \/ StartFail
    \/ Start
    \/ CopyNone
    \/ CopyAll
    \/ \E k \in 0..MaxLen * 2 : CopyFail(k)
    \/ SendFail
    \/ \E status \in Statuses, headers \in ResponseHeaders : Send(status, headers)

FairSpec == Spec /\ WF_vars(DispatchStep)

----------------------------------------------------------------------------
\* The Referer header (src/header/common/referer.rs)

Blank == [kind |-> "Blank"]
RefererUrl(u) == [kind |-> "RefererUrl", url |-> u]

AboutBlank == <<"about:", "blank">>

WhiteSpace == {" "}
NotUtf8 == {"<FF>"}

\* str::from_utf8: the text of the line, or nothing when it is not UTF-8.
FromUtf8(line) ==
    IF \E i \in 1..Len(line) : line[i] \in NotUtf8 THEN None ELSE Some(line)

RECURSIVE TrimLeft(_)
TrimLeft(s) ==
    IF s # <<>> /\ Head(s) \in WhiteSpace THEN TrimLeft(Tail(s)) ELSE s

RECURSIVE TrimRight(_)
TrimRight(s) ==
    IF s # <<>> /\ s[Len(s)] \in WhiteSpace
    THEN TrimRight(SubSeq(s, 1, Len(s) - 1))
    ELSE s

\* str::trim
Trim(s) == TrimRight(TrimLeft(s))

\* Not the code: no special case for "about:blank".
Referer_from_str_NoBlank(s) ==
    IF UrlParse(s).ok THEN Some(RefererUrl(UrlParse(s).val)) ELSE None

\* impl FromStr for Referer
Referer_from_str(s) ==
    IF s = AboutBlank THEN Some(Blank)
    ELSE IF UrlParse(s).ok THEN Some(RefererUrl(UrlParse(s).val))
    ELSE None

\* Not the code: the first line is parsed whatever the number of lines.
Referer_parse_header_FirstLine(raw) ==
    IF Len(raw) = 0 THEN None
    ELSE LET h == FromUtf8(raw[1])
         IN  IF IsNone(h) THEN None ELSE Referer_from_str(Trim(Unwrap(h)))

\* Header::parse_header for Referer
Referer_parse_header(raw) ==
    IF Len(raw) # 1 THEN None
    ELSE LET h == FromUtf8(raw[1])
         IN  IF IsNone(h) THEN None ELSE Referer_from_str(Trim(Unwrap(h)))

\* The token a formatted field is written as.
SchemeToken(name) ==
    IF name = "http" THEN "http:" ELSE IF name = "https" THEN "https:" ELSE "about:"
PortToken(n) == ":9"
QueryToken(q) == "?q"
UserToken(n) == "u@"
FragmentToken(f) == "#f"

\* Not the code: the URL is written whole, as Url's own formatter does.
Referer_fmt_header_Whole(r) ==
    IF r.kind = "Blank" THEN AboutBlank
    ELSE LET u == r.url
         IN  <<SchemeToken(u.scheme)>>
             \o (IF u.kind = "NonRelative" THEN u.data
                 ELSE <<"//">>
                      \o (IF IsSome(u.username)
                          THEN <<UserToken(Unwrap(u.username))>> ELSE <<>>)
                      \o <<u.host>>
                      \o (IF IsSome(u.port) THEN <<PortToken(Unwrap(u.port))>>
                          ELSE <<>>)
                      \o <<u.path>>)
             \o (IF IsSome(u.query) THEN <<QueryToken(Unwrap(u.query))>>
                 ELSE <<>>)
             \o (IF IsSome(u.fragment) THEN <<FragmentToken(Unwrap(u.fragment))>>
                 ELSE <<>>)

\* HeaderFormat::fmt_header for Referer: the text written.
Referer_fmt_header(r) ==
    IF r.kind = "Blank" THEN AboutBlank
    ELSE LET u == r.url
         IN  <<SchemeToken(u.scheme)>>
             \o (IF u.kind = "NonRelative" THEN u.data
                 ELSE <<"//", u.host>>
                      \o (IF IsSome(u.port) THEN <<PortToken(Unwrap(u.port))>>
                          ELSE <<>>)
                      \o <<u.path>>)
             \o (IF IsSome(u.query) THEN <<QueryToken(Unwrap(u.query))>>
                 ELSE <<>>)

\* The texts a received Referer line is drawn from.
OptionalToken(class) == {<<>>} \cup {<<t>> : t \in class}

AbsoluteTexts ==
    {<<sch, "//">> \o u \o <<"h1">> \o p \o pa \o q \o f :
        sch \in SchemeTokens, u \in OptionalToken(UserTokens),
        p \in OptionalToken(PortTokens), pa \in OptionalToken({"/a"}),
        q \in OptionalToken(QueryTokens), f \in OptionalToken(FragmentTokens)}

NonRelativeTexts ==
    {AboutBlank, <<"about:">>, <<"about:", "blank", "?q">>,
     <<"about:", "blank", "#f">>}

RelativeTexts == {<<"/a", "?q">>, <<"/a">>, <<"?q">>}

BadTexts == {<<>>, <<"http:", "//">>, <<"http:", "h1">>,
             <<"http:", "//", "h1", "?q", "/a">>}

\* The texts that are also tried with white space around and with bad bytes.
PaddedTexts ==
    {AboutBlank, <<"http:", "//", "u@", "h1", ":9", "/a", "?q", "#f">>,
     <<"/a", "?q">>, <<>>}

Lines ==
    AbsoluteTexts \cup NonRelativeTexts \cup RelativeTexts \cup BadTexts
    \cup {<<" ">> \o t : t \in PaddedTexts}
    \cup {t \o <<" ">> : t \in PaddedTexts}
    \cup {<<" ", " ">> \o t \o <<" ">> : t \in PaddedTexts}
    \cup {t \o <<"<FF>">> : t \in PaddedTexts}
    \cup {<<"<FF>", " ">> \o t : t \in PaddedTexts}

SeveralLines == {AboutBlank, <<"http:", "//", "h1">>, <<"<FF>">>}

RawHeaders ==
    {<<l>> : l \in Lines} \cup SeqsUpTo(SeveralLines, MaxLines)

\* parse_header(raw)
ParseHeader(raw) ==
    /\ hdr_pc = "idle"
    /\ hdr_pc' = "parsed"
    /\ hdr_raw' = raw
    /\ hdr_parsed' = Referer_parse_header(raw)
    /\ hdr_text' = None
    /\ hdr_again' = None
    /\ UNCHANGED client_vars

\* fmt_header of the value parse_header gave
FmtHeader ==
    /\ hdr_pc = "parsed"
    /\ IsSome(hdr_parsed)
    /\ hdr_pc' = "written"
    /\ hdr_text' = Some(Referer_fmt_header(Unwrap(hdr_parsed)))
    /\ UNCHANGED <<hdr_raw, hdr_parsed, hdr_again>>
    /\ UNCHANGED client_vars

\* parse_header of the one line fmt_header wrote
ParseWritten ==
    /\ hdr_pc = "written"
    /\ hdr_pc' = "reparsed"
    /\ hdr_again' = Some(Referer_parse_header(<<Unwrap(hdr_text)>>))
    /\ UNCHANGED <<hdr_raw, hdr_parsed, hdr_text>>
    /\ UNCHANGED client_vars

\* The caller drops the header values.
HeaderDropped ==
    /\ hdr_pc \in {"parsed", "written", "reparsed"}
    /\ hdr_pc' = "idle"
    /\ hdr_raw' = <<>>
    /\ hdr_parsed' = None
    /\ hdr_text' = None
    /\ hdr_again' = None
    /\ UNCHANGED client_vars

RefererNext ==
    \/ \E raw \in RawHeaders : ParseHeader(raw)
    \/ FmtHeader
    \/ ParseWritten
    \/ HeaderDropped

RefererSpec == Init /\ [][RefererNext]_vars

----------------------------------------------------------------------------
\* Vocabulary of the properties

Opts == Unwrap(options)

Returned_Ok == pc = "done" /\ Unwrap(result).ok

Returned_Err == pc = "done" /\ ~Unwrap(result).ok

IsRedirect(r) == StatusClass(r.status) = "Redirection"

HasLocation(r) == "Location" \in DOMAIN r.headers

\* The Location of r is present and resolves against cur.
Resolves(cur, r) ==
    HasLocation(r) /\ UrlParseWithBase(cur, r.headers["Location"]).ok

Target(cur, r) == UrlParseWithBase(cur, r.headers["Location"]).val

Answered(h) == IsSome(h.res)

\* Hop h was answered with a redirection whose Location resolves.
FollowableHop(h) ==
    Answered(h) /\ IsRedirect(Unwrap(h.res)) /\ Resolves(h.url, Unwrap(h.res))

HopTarget(h) == Target(h.url, Unwrap(h.res))

HasLength(h) == "ContentLength" \in DOMAIN h.headers

BodyMethod == Opts.method \notin {"Get", "Head"}

HasPayload == IsSome(Opts.body)

Payload == Unwrap(Opts.body)

CallerSet == IF IsSome(Opts.headers) THEN Unwrap(Opts.headers) ELSE NoHeaders

StatusesOfHops == [i \in 1..Len(hops) |->
                     IF Answered(hops[i]) THEN Unwrap(hops[i].res).status ELSE 0]

----------------------------------------------------------------------------
\* C1: under FollowAll a response that is not a redirection ends the dispatch
\* and is what the call returns, every hop before it was a redirection, and
\* the call never returns a redirection whose Location is present and resolves
\* against the URL of the hop that got it.
C1_FollowAllReturnsFirstNonRedirect ==
    (redirect_policy.kind = "FollowAll" /\ hops # <<>>) =>
        /\ \A i \in 1..Len(hops) :
              (Answered(hops[i]) /\ ~IsRedirect(Unwrap(hops[i].res))) =>
                  /\ i = Len(hops)
                  /\ pc = "done"
                  /\ result = Some(Ok(Unwrap(hops[i].res)))
        /\ \A i \in 1..(Len(hops) - 1) : FollowableHop(hops[i])
        /\ Returned_Ok =>
              /\ LastHop.res = Some(Unwrap(result).val)
              /\ ~FollowableHop(LastHop)

C1_Witness ==
    /\ redirect_policy.kind = "FollowAll"
    /\ Returned_Ok
    /\ StatusesOfHops = <<301, 302, 200>>
    /\ Unwrap(result).val.status = 200
    /\ Unwrap(result).val.hop = 3

\* C2: under FollowNone a dispatch opens at most one request handle, and a
\* call that returns a response returns the one of that first hop, whatever
\* its status and its Location.
C2_FollowNoneOneHop ==
    redirect_policy.kind = "FollowNone" =>
        /\ Len(hops) <= 1
        /\ (hops # <<>> /\ Answered(hops[1])) =>
              pc = "done" /\ result = Some(Ok(Unwrap(hops[1].res)))
        /\ Returned_Ok =>
              Len(hops) = 1 /\ Some(Unwrap(result).val) = hops[1].res

C2_Witness ==
    /\ redirect_policy.kind = "FollowNone"
    /\ Returned_Ok
    /\ Len(hops) = 1
    /\ FollowableHop(hops[1])
    /\ Unwrap(result).val.status = 301
    /\ Unwrap(result).val.hop = 1

\* C3: under FollowIf(pred), after a redirection with a resolvable Location
\* the loop goes on to the next hop exactly when pred holds of the resolved
\* URL, and otherwise the call returns that redirection response itself; a
\* hop that was opened after another is at the resolved URL, which pred
\* accepted.
C3_FollowIfDecides ==
    (redirect_policy.kind = "FollowIf" /\ hops # <<>>) =>
        /\ \A i \in 1..(Len(hops) - 1) :
              /\ FollowableHop(hops[i])
              /\ hops[i + 1].url = HopTarget(hops[i])
              /\ Cond(redirect_policy.cond, hops[i + 1].url)
        /\ FollowableHop(LastHop) =>
              IF Cond(redirect_policy.cond, HopTarget(LastHop))
              THEN pc = "open" \/ Returned_Err
              ELSE pc = "done" /\ result = Some(Ok(Unwrap(LastHop.res)))

C3_Witness ==
    /\ redirect_policy = FollowIf("follow_if")
    /\ Returned_Ok
    /\ StatusesOfHops = <<301, 302>>
    /\ FollowableHop(hops[2])
    /\ HopTarget(hops[2]).host = "h3"
    /\ Unwrap(result).val.status = 302
    /\ Unwrap(result).val.hop = 2

\* C4 as stated: for Get and Head no hop carries body bytes or a length
\* header, even when a payload is supplied.
C4_NoBodyNoLength ==
    (IsSome(options) /\ ~BodyMethod) =>
        \A i \in 1..Len(hops) : hops[i].written = <<>> /\ ~HasLength(hops[i])

\* C4, amended: for Get and Head the payload is dropped unread, no hop
\* carries body bytes, and the call adds no length header: every hop carries
\* exactly the caller-supplied headers.
C4_NoBodyOnlyCallerHeaders ==
    (IsSome(options) /\ ~BodyMethod) =>
        /\ body = None
        /\ payload_read = 0
        /\ \A i \in 1..Len(hops) :
              /\ hops[i].written = <<>>
              /\ ~hops[i].copy_err
              /\ hops[i].headers = CallerSet

C4_Witness ==
    /\ IsSome(options)
    /\ Opts.method = "Head"
    /\ HasPayload
    /\ Payload.type = "slice" /\ Payload.bytes # <<>>
    /\ IsNone(Opts.headers)
    /\ Len(hops) = 2
    /\ Answered(hops[2])
    /\ ~HasLength(hops[1]) /\ ~HasLength(hops[2])

\* The byte length of a payload: of a slice its length, of a string the
\* length of its UTF-8 encoding.
ByteLength(p) ==
    CASE p.type = "slice" -> Len(p.bytes)
      [] p.type = "str" -> Len(AsBytes(p.chars))
      [] p.type = "reader" -> Len(p.stream)

\* C5: for a method other than Get and Head and a slice or string payload of
\* byte length L, the payload goes into the first hop only and that hop's
\* length header is L, whatever the caller's headers say; a copy that did not
\* fail wrote L bytes.
C5_SizedLengthHeader ==
    (IsSome(options) /\ BodyMethod /\ HasPayload
        /\ Payload.type \in {"slice", "str"} /\ hops # <<>>) =>
        /\ HeadersGet(hops[1].headers, "ContentLength") = Some(ByteLength(Payload))
        /\ Len(hops) >= 2 => IsNone(body)
        /\ (IsNone(body) /\ ~hops[1].copy_err) =>
              Len(hops[1].written) = ByteLength(Payload)
        /\ \A i \in 2..Len(hops) : hops[i].written = <<>> /\ ~hops[i].copy_err

C5_Witness ==
    /\ IsSome(options)
    /\ Opts.method = "Post"
    /\ HasPayload
    /\ Payload.type = "str" /\ Payload.chars = <<233>>
    /\ Opts.headers = Some([ContentLength |-> 9, UserAgent |-> "ua"])
    /\ Len(hops) = 1
    /\ hops[1].stage = "sent"
    /\ hops[1].written = <<195, 169>>
    /\ hops[1].headers["ContentLength"] = 2

\* C6 as stated: for a method other than Get and Head and a reader payload,
\* no hop of the dispatch carries a length header.
C6_ChunkedNoLength ==
    (IsSome(options) /\ BodyMethod /\ HasPayload /\ Payload.type = "reader") =>
        \A i \in 1..Len(hops) : ~HasLength(hops[i])

\* C6, amended: for a method other than Get and Head and a reader payload,
\* the call sets no length header on the first hop, the one the payload is
\* streamed into (it carries exactly the caller-supplied headers), and sets
\* the length header to zero on every later hop, which has no body.
C6_ChunkedFirstHopNoLength ==
    (IsSome(options) /\ BodyMethod /\ HasPayload /\ Payload.type = "reader") =>
        \A i \in 1..Len(hops) :
            IF i = 1 THEN hops[i].headers = CallerSet
            ELSE /\ hops[i].headers = HeadersSet(CallerSet, "ContentLength", 0)
                 /\ hops[i].written = <<>>

C6_Witness ==
    /\ IsSome(options)
    /\ BodyMethod /\ HasPayload
    /\ Payload.type = "reader" /\ Payload.stream # <<>>
    /\ IsNone(Opts.headers)
    /\ Len(hops) = 2
    /\ hops[1].written = Payload.stream
    /\ ~HasLength(hops[1])
    /\ hops[2].headers["ContentLength"] = 0

\* C7: for a method other than Get and Head and no payload, every hop has
\* its length header set to zero and no body byte is written.
C7_NoPayloadZeroLength ==
    (IsSome(options) /\ BodyMethod /\ ~HasPayload) =>
        /\ body = None
        /\ payload_read = 0
        /\ \A i \in 1..Len(hops) :
              /\ HeadersGet(hops[i].headers, "ContentLength") = Some(0)
              /\ hops[i].written = <<>>
              /\ ~hops[i].copy_err

C7_Witness ==
    /\ IsSome(options)
    /\ Opts.method = "Delete"
    /\ ~HasPayload
    /\ IsSome(Opts.headers)
    /\ Len(hops) = 2
    /\ Answered(hops[2])
    /\ hops[1].headers["ContentLength"] = 0
    /\ hops[2].headers["ContentLength"] = 0

\* C8: a redirection response whose Location is absent, or does not resolve
\* against the URL of its hop, is returned as Ok by the call, whatever the
\* policy: its hop is the last one and no error is returned.
C8_UnusableRedirectIsTerminal ==
    \A i \in 1..Len(hops) :
        (Answered(hops[i]) /\ IsRedirect(Unwrap(hops[i].res))
            /\ ~Resolves(hops[i].url, Unwrap(hops[i].res))) =>
            /\ i = Len(hops)
            /\ pc = "done"
            /\ result = Some(Ok(Unwrap(hops[i].res)))

C8_Witness ==
    /\ Returned_Ok
    /\ Len(hops) = 2
    /\ IsRedirect(Unwrap(result).val)
    /\ HasLocation(Unwrap(result).val)
    /\ ~Resolves(hops[2].url, Unwrap(result).val)
    /\ Unwrap(result).val.hop = 2

\* C9 as stated: a failure at any step of a hop (start, the copy of the body
\* into the request, send) aborts the dispatch: that hop is the last one, it
\* gets no response, and the call returns an error and no response.
C9_FailureAborts ==
    \A i \in 1..Len(hops) :
        (hops[i].stage \in {"start_failed", "send_failed"} \/ hops[i].copy_err) =>
            /\ i = Len(hops)
            /\ ~Answered(hops[i])
            /\ pc = "done" => ~Unwrap(result).ok

\* C10: when the target is a string that is no URL, the call returns the
\* error at once: no request handle is opened, no Body is made and no byte
\* of the payload is read.
C10_BadTargetNoHop ==
    (IsSome(options) /\ Opts.url.type = "str" /\ ~UrlParse(Opts.url.text).ok) =>
        /\ pc = "done"
        /\ result = Some(Err("HttpUriError"))
        /\ hops = <<>>
        /\ url = None
        /\ body = None
        /\ payload_read = 0

C10_Witness ==
    /\ IsSome(options)
    /\ Opts.url = [type |-> "str", text |-> <<"/a">>]
    /\ Opts.method = "Post"
    /\ HasPayload
    /\ Payload.type = "reader" /\ Payload.stream # <<>>
    /\ Returned_Err
    /\ hops = <<>>
    /\ payload_read = 0

----------------------------------------------------------------------------
\* C11: a client starts with FollowAll; its policy changes only in a
\* set_redirect_policy step, taken between dispatches, which changes nothing
\* else; every step of a dispatch leaves the policy alone; and the decision a
\* dispatch takes on a followable redirection is the one of the policy the
\* client holds: it goes on to the next hop only when the policy follows the
\* resolved URL and returns the redirection only when the policy refuses it.
C11_PolicyFrame ==
    /\ redirect_policy = FollowAll
    /\ [][/\ redirect_policy' # redirect_policy =>
                /\ pc = "idle"
                /\ UNCHANGED <<pc, options, url, can_have_body, body, res,
                               result, hops, payload_read, referer_vars>>
          /\ pc # "idle" => redirect_policy' = redirect_policy
          /\ (pc = "send" /\ pc' = "open") =>
                /\ FollowableHop(LastHop')
                /\ PolicyFollows(redirect_policy', HopTarget(LastHop'))
          /\ (pc = "send" /\ pc' = "done" /\ Unwrap(result').ok
                /\ FollowableHop(LastHop')) =>
                ~PolicyFollows(redirect_policy', HopTarget(LastHop'))
         ]_vars

\* After set_redirect_policy(FollowIf(root_only)) a dispatch followed one
\* redirection the predicate accepts and returned one it refuses.
C11_Witness ==
    /\ redirect_policy = FollowIf("root_only")
    /\ Returned_Ok
    /\ Len(hops) = 2
    /\ FollowableHop(hops[2])
    /\ Cond("root_only", hops[2].url)
    /\ ~Cond("root_only", HopTarget(hops[2]))

----------------------------------------------------------------------------
\* Vocabulary of the Referer properties

HeaderParsed == hdr_pc # "idle"

OneLine == Len(hdr_raw) = 1

ValidUtf8(line) == \A i \in 1..Len(line) : line[i] # "<FF>"

\* The line with the white-space tokens at its two ends removed.
Trimmed(line) ==
    LET keep == {i \in 1..Len(line) : line[i] # " "}
    IN  IF keep = {} THEN <<>>
        ELSE SubSeq(line,
                    CHOOSE i \in keep : \A j \in keep : i <= j,
                    CHOOSE i \in keep : \A j \in keep : j <= i)

IsReferer(r) ==
    \/ r = Blank
    \/ r.kind = "RefererUrl" /\ Ok(r.url) \in {UrlParse(t) : t \in Lines}

\* C12: parse_header returns a value exactly when raw is one line, the line is
\* valid UTF-8, and its text with the surrounding white space removed is
\* "about:blank" or is accepted by Url::parse; in every other case it returns
\* no value, and what it returns is always either no value or a Referer.
C12_ParseHeaderValueIff ==
    HeaderParsed =>
        /\ IsSome(hdr_parsed) <=>
              /\ OneLine
              /\ ValidUtf8(hdr_raw[1])
              /\ \/ Trimmed(hdr_raw[1]) = AboutBlank
                 \/ UrlParse(Trimmed(hdr_raw[1])).ok
        /\ hdr_parsed = None \/ (IsSome(hdr_parsed) /\ IsReferer(Unwrap(hdr_parsed)))

\* A padded absolute URL gave a value.
C12_Witness ==
    /\ HeaderParsed
    /\ hdr_raw = << <<" ", " ", "http:", "//", "u@", "h1", ":9", "/a", "?q", "#f", " ">> >>
    /\ IsSome(hdr_parsed)
    /\ Unwrap(hdr_parsed).kind = "RefererUrl"
    /\ Unwrap(hdr_parsed).url.host = "h1"

HeaderWritten == hdr_pc \in {"written", "reparsed"}

\* The text s without its user-info and fragment tokens.
WithoutUserAndFragment(s) ==
    LET Kept(t) == t \notin UserTokens \cup FragmentTokens
    IN  SelectSeq(s, Kept)

\* The text s with the path "/" put in front of the query when it has no path.
WithRootPath(s) ==
    LET NotQuery(t) == t \notin QueryTokens
        n == Len(SelectSeq(s, NotQuery))
    IN  IF \E i \in 1..Len(s) : s[i] \in PathTokens THEN s
        ELSE SubSeq(s, 1, n) \o <<"/">> \o SubSeq(s, n + 1, Len(s))

\* C13: the text fmt_header writes for RefererUrl(u), u parsed from a header
\* line, is that line's text without its user-info and its fragment: for a
\* relative-scheme URL the scheme with ':', "//", the host, the port exactly
\* when u records one, the path ("/" when the text had none) and the query
\* exactly when u has one; no user-info and no fragment token is ever written.
C13_FormatDropsUserinfoAndFragment ==
    (HeaderWritten /\ Unwrap(hdr_parsed).kind = "RefererUrl") =>
        LET u == Unwrap(hdr_parsed).url
            text == Trimmed(hdr_raw[1])
            out == Unwrap(hdr_text)
        IN  /\ \A i \in 1..Len(out) : out[i] \notin UserTokens \cup FragmentTokens
            /\ SchemeName(out[1]) = u.scheme
            /\ (\E i \in 1..Len(out) : out[i] \in QueryTokens) <=> IsSome(u.query)
            /\ u.kind = "NonRelative" => out = WithoutUserAndFragment(text)
            /\ u.kind = "Relative" =>
                  /\ out = WithRootPath(WithoutUserAndFragment(text))
                  /\ out[2] = "//" /\ out[3] = u.host
                  /\ (\E i \in 1..Len(out) : out[i] \in PortTokens) <=> IsSome(u.port)
                  /\ \E i \in 1..Len(out) : out[i] = u.path

\* "http://u@h1:9/a?q#f" is written "http://h1:9/a?q".
C13_Witness ==
    /\ HeaderWritten
    /\ hdr_raw = << <<"http:", "//", "u@", "h1", ":9", "/a", "?q", "#f">> >>
    /\ Unwrap(hdr_parsed).kind = "RefererUrl"
    /\ Unwrap(hdr_parsed).url.username = Some("u")
    /\ Unwrap(hdr_parsed).url.fragment = Some("f")
    /\ hdr_text = Some(<<"http:", "//", "h1", ":9", "/a", "?q">>)

\* C14: a single valid line whose trimmed text is "about:blank" parses to
\* Blank, never to RefererUrl; Blank is written as exactly "about:blank"; and
\* parsing the text written for Blank gives Blank again.
C14_BlankRoundTrip ==
    /\ (HeaderParsed /\ OneLine /\ ValidUtf8(hdr_raw[1])
          /\ Trimmed(hdr_raw[1]) = <<"about:", "blank">>) =>
            hdr_parsed = Some(Blank)
    /\ (HeaderWritten /\ hdr_parsed = Some(Blank)) =>
            hdr_text = Some(<<"about:", "blank">>)
    /\ (hdr_pc = "reparsed" /\ hdr_parsed = Some(Blank)) =>
            hdr_again = Some(Some(Blank))

\* " about:blank" was parsed, written and parsed again.
C14_Witness ==
    /\ hdr_pc = "reparsed"
    /\ hdr_raw = << <<" ", "about:", "blank">> >>
    /\ hdr_parsed = Some(Blank)
    /\ hdr_text = Some(<<"about:", "blank">>)
    /\ hdr_again = Some(Some(Blank))

\* C15: parse_header of a single line holding a relative URI reference (a
\* text without a scheme) returns a Referer value.
C15_RelativeReferenceParsed ==
    (HeaderParsed /\ OneLine /\ hdr_raw[1] \in RelativeTexts) =>
        IsSome(hdr_parsed)

----------------------------------------------------------------------------
\* C16: across one dispatch the payload is consumed at most once: body bytes
\* go into the first hop only, and only for a method other than GET and HEAD
\* with a payload; no later hop carries body bytes or attempts a copy, the
\* local body is gone once the first hop has been streamed, and the bytes
\* pulled from the payload source are those written to the first hop, never
\* more than the payload holds.
C16_PayloadConsumedOnce ==
    hops # <<>> =>
        /\ \A i \in 2..Len(hops) : hops[i].written = <<>> /\ ~hops[i].copy_err
        /\ Cardinality({i \in 1..Len(hops) : hops[i].written # <<>>}) <= 1
        /\ (hops[1].written # <<>> \/ hops[1].copy_err) => BodyMethod /\ HasPayload
        /\ payload_read = Len(hops[1].written)
        /\ HasPayload => payload_read <= ByteLength(Payload)
        /\ ~HasPayload => payload_read = 0
        /\ (Len(hops) >= 2 \/ pc = "send"
              \/ hops[1].stage \in {"sent", "send_failed"}) => IsNone(body)

\* A POST with a payload went through three hops: the payload is in the first.
C16_Witness ==
    /\ Len(hops) = 3
    /\ BodyMethod /\ HasPayload
    /\ hops[3].stage = "sent"
    /\ hops[1].written # <<>>
    /\ payload_read = ByteLength(Payload)
    /\ hops[2].written = <<>> /\ hops[3].written = <<>>

\* The stages a request handle is not used after.
Finished(h) == h.stage \in {"start_failed", "send_failed", "sent"}

\* C17: the hops of a dispatch are strictly sequential. Every hop but the last
\* has been sent and answered, by a redirection, before the next handle was
\* opened, so at most one handle is in flight; within a hop the handle is
\* opened with its headers, then started, then streamed, then finalized, and
\* only a finalized handle has a response; and a handle is finalized at most
\* once: once it has failed or been sent nothing about it changes again, its
\* stage only moves fresh -> streaming -> sent (or to a failure), and a step
\* opens at most one new handle, only when every earlier one is finished.
C17_HopsSequential ==
    /\ [](hops # <<>> =>
            /\ \A i \in 1..(Len(hops) - 1) :
                  /\ hops[i].stage = "sent"
                  /\ Answered(hops[i])
                  /\ IsRedirect(Unwrap(hops[i].res))
            /\ \A i \in 1..Len(hops) :
                  /\ Answered(hops[i]) <=> hops[i].stage = "sent"
                  /\ Answered(hops[i]) => Unwrap(hops[i].res).hop = i
                  /\ hops[i].written # <<>> =>
                        hops[i].stage \in {"streaming", "send_failed", "sent"}
            /\ pc = "start" => LastHop.stage = "fresh"
            /\ pc = "copy" => LastHop.stage = "streaming" /\ LastHop.written = <<>>
            /\ pc = "send" => LastHop.stage = "streaming"
            /\ pc = "open" => LastHop.stage = "sent"
            /\ pc = "done" => Finished(LastHop))
    /\ [][/\ Len(hops') <= Len(hops) + 1
          /\ Len(hops') = Len(hops) + 1 =>
                /\ pc = "open"
                /\ \A i \in 1..Len(hops) : Finished(hops[i]) /\ hops'[i] = hops[i]
                /\ hops'[Len(hops')].stage = "fresh"
          /\ Len(hops') = Len(hops) =>
                \A i \in 1..Len(hops) :
                    /\ Finished(hops[i]) => hops'[i] = hops[i]
                    /\ hops'[i].stage # hops[i].stage =>
                          \/ hops[i].stage = "fresh"
                               /\ hops'[i].stage \in {"streaming", "start_failed"}
                          \/ hops[i].stage = "streaming"
                               /\ hops'[i].stage \in {"sent", "send_failed"}
                               /\ pc = "send"
         ]_vars

\* Three hops, each answered: two redirections, then the terminal response.
C17_Witness ==
    /\ Len(hops) = 3
    /\ \A i \in 1..3 : hops[i].stage = "sent" /\ Unwrap(hops[i].res).hop = i
    /\ IsRedirect(Unwrap(hops[2].res))
    /\ ~IsRedirect(Unwrap(hops[3].res))
    /\ pc = "done"

\* C18: every hop after the first is the follow-up of a followed redirection:
\* its URL is the Location of the previous hop's response resolved against
\* the URL of that previous hop (not of the first), the policy follows that
\* URL, its method is the method of the call, and it carries every header the
\* caller supplied with the caller's value (the length header excepted for a
\* method that can have a body, where the client sets its own) and no header
\* besides these and the length header.
C18_RedirectTargetAndRequest ==
    \A i \in 1..(Len(hops) - 1) :
        /\ FollowableHop(hops[i])
        /\ hops[i + 1].url =
              UrlParseWithBase(hops[i].url,
                               Unwrap(hops[i].res).headers["Location"]).val
        /\ PolicyFollows(redirect_policy, hops[i + 1].url)
        /\ hops[i + 1].method = Opts.method
        /\ hops[i + 1].method = hops[1].method
        /\ \A n \in DOMAIN CallerSet :
              /\ n \in DOMAIN hops[i + 1].headers
              /\ (n # "ContentLength" \/ ~BodyMethod) =>
                    hops[i + 1].headers[n] = CallerSet[n]
        /\ DOMAIN hops[i + 1].headers \subseteq DOMAIN CallerSet \cup {"ContentLength"}

\* The first hop was redirected to another host and the second to a path: the
\* third hop goes to that path on the second hop's host, with the caller's
\* header.
C18_Witness ==
    /\ Len(hops) = 3
    /\ hops[1].url.host = "h1"
    /\ hops[2].url.host = "h3"
    /\ Unwrap(hops[2].res).headers["Location"] = <<"/b">>
    /\ hops[3].url.host = "h3" /\ hops[3].url.scheme = "https"
    /\ hops[3].url.path = "/b"
    /\ IsSome(Opts.headers)
    /\ hops[3].headers["UserAgent"] = "ua"
    /\ hops[3].method = "Post"

\* C19: the loop has no hop-count bound. Whatever the number of hops already
\* issued, a hop answered by a redirection whose Location resolves to a URL
\* the policy follows leaves the call in the loop, about to open the next
\* handle for that URL (unless opening it fails), and the next handle can be
\* opened; a call that has returned a response has met a response that is
\* not such a redirection or a refusal of the policy, so under FollowAll a
\* transport that answers every hop with a resolvable redirection is never
\* left with a response.
C19_NoHopBound ==
    /\ (hops # <<>> /\ LastHop.stage = "sent" /\ FollowableHop(LastHop)
          /\ PolicyFollows(redirect_policy, HopTarget(LastHop))) =>
            /\ url = Some(HopTarget(LastHop))
            /\ pc = "open" \/ (Returned_Err /\ Unwrap(result).err = "with_connector")
    /\ (pc = "open" /\ Len(hops) < MaxHops) => ENABLED Open
    /\ Returned_Ok =>
            \/ ~FollowableHop(LastHop)
            \/ ~PolicyFollows(redirect_policy, HopTarget(LastHop))
    /\ (Returned_Ok /\ redirect_policy = FollowAll) => ~FollowableHop(LastHop)

\* Under FollowAll every hop the model allows was answered by a resolvable
\* redirection, the last ones in a cycle on one URL, and the call is about to
\* open one more.
C19_Witness ==
    /\ redirect_policy = FollowAll
    /\ Len(hops) = MaxHops
    /\ \A i \in 1..MaxHops : FollowableHop(hops[i])
    /\ hops[MaxHops].url = hops[MaxHops - 1].url
    /\ HopTarget(hops[MaxHops]) = hops[MaxHops].url
    /\ pc = "open"

\* The hops answered by a redirection whose Location resolves to a URL the
\* policy follows.
FollowedHops ==
    {i \in 1..Len(hops) :
        /\ FollowableHop(hops[i])
        /\ PolicyFollows(redirect_policy, HopTarget(hops[i]))}

\* C20: a dispatch never issues more hops than one plus the number of
\* followable redirections it has met (redirection, resolvable Location,
\* policy follows), so a chain with at most k of them before a terminal
\* response costs at most k + 1 hops; a call that returns a response has
\* issued exactly one hop more than it followed redirections, the last hop is
\* the one that was not followed, and the response returned is the one
\* received on that last hop; and when every transport call returns, a call
\* that is running returns, or has used every hop the model allows.
C20_HopsBoundedByRedirects ==
    /\ [](/\ Len(hops) <= Cardinality(FollowedHops) + 1
          /\ hops # <<>> => 1..(Len(hops) - 1) \subseteq FollowedHops
          /\ Returned_Ok =>
                /\ Len(hops) = Cardinality(FollowedHops) + 1
                /\ Len(hops) \notin FollowedHops
                /\ Some(Unwrap(result).val) = LastHop.res
                /\ Unwrap(result).val.hop = Len(hops))
    /\ (pc \notin {"idle", "done"}) ~>
          (pc = "done" \/ (pc = "open" /\ Len(hops) = MaxHops))

\* Two followable redirections, then a 200, returned after three hops.
C20_Witness ==
    /\ Returned_Ok
    /\ Cardinality(FollowedHops) = 2
    /\ Len(hops) = 3
    /\ Unwrap(result).val.status = 200
    /\ Unwrap(result).val.hop = 3
    /\ StatusesOfHops = <<301, 302, 200>>
    /\ redirect_policy = FollowIf("follow_if")

====
